---- MODULE Spec2Model ----
(***************************************************************************)
(* A model of CalculatePath.py: the battle/combine resolver and the        *)
(* memoised recursive search find_best_path, run by solve_unit_problem.    *)
(*                                                                         *)
(* Amounts.  Python divides with "/", so amounts become floats that are    *)
(* multiples of a power of 1/2.  The model keeps every amount as an        *)
(* integer count of 1/Scale units (fixed point): the input amount m is     *)
(* held as m * Scale.  Each battle on a path halves an amount at most      *)
(* once, so all amounts of a search over up to 7 groups are exact.         *)
(*                                                                         *)
(* Indices.  remaining_indices holds Python's 0-based positions; the       *)
(* model keeps these numbers and reads position k of a tuple with At.      *)
(***************************************************************************)
EXTENDS Integers, Sequences, FiniteSets, TLC

\* Bounds of the explored inputs.
MaxUnits == 3
MaxAmount == 2

\* Fixed-point denominator of an amount (see above).
Scale == 2 * 2 * 2

Teams == {"blue", "red"}
UnitTypes == {"archers", "soldiers", "typeless", "warriors"}

-----------------------------------------------------------------------------
(* Module-level tables                                                      *)

COMBAT_RULES ==
    [ archers  |-> [kills |-> "warriors", ratio |-> <<2, 3>>],
      warriors |-> [kills |-> "soldiers", ratio |-> <<2, 2>>],
      soldiers |-> [kills |-> "archers",  ratio |-> <<2, 2>>] ]

-----------------------------------------------------------------------------
(* Resolver                                                                 *)

\* Mutant of calculate_battle_outcome: an even trade returns the size of the
\* difference for both sides.
calculate_battle_outcome_abs(unit1_type, unit1_amount, unit2_type, unit2_amount) ==
    LET diff == IF unit1_amount >= unit2_amount THEN unit1_amount - unit2_amount
                ELSE unit2_amount - unit1_amount
    IN
    IF unit1_type = unit2_type \/ unit1_type = "typeless" \/ unit2_type = "typeless"
    THEN <<diff, diff>>
    ELSE IF unit1_type \in DOMAIN COMBAT_RULES
            /\ COMBAT_RULES[unit1_type].kills = unit2_type
    THEN <<unit1_amount,
           unit2_amount - (unit1_amount \div COMBAT_RULES[unit1_type].ratio[1])
                            * COMBAT_RULES[unit1_type].ratio[2]>>
    ELSE IF unit2_type \in DOMAIN COMBAT_RULES
            /\ COMBAT_RULES[unit2_type].kills = unit1_type
    THEN <<unit1_amount - (unit2_amount \div COMBAT_RULES[unit2_type].ratio[1])
                            * COMBAT_RULES[unit2_type].ratio[2],
           unit2_amount>>
    ELSE <<diff, diff>>

\* Mutant of calculate_battle_outcome: the branch for unit2 killing unit1
\* (lines 41-48) is missing, so that pair is an even trade.
calculate_battle_outcome_one_sided(unit1_type, unit1_amount, unit2_type, unit2_amount) ==
    IF unit1_type = unit2_type \/ unit1_type = "typeless" \/ unit2_type = "typeless"
    THEN <<unit1_amount - unit2_amount, unit2_amount - unit1_amount>>
    ELSE IF unit1_type \in DOMAIN COMBAT_RULES
            /\ COMBAT_RULES[unit1_type].kills = unit2_type
    THEN <<unit1_amount,
           unit2_amount - (unit1_amount \div COMBAT_RULES[unit1_type].ratio[1])
                            * COMBAT_RULES[unit1_type].ratio[2]>>
    ELSE <<unit1_amount - unit2_amount, unit2_amount - unit1_amount>>

\* Mutant of calculate_battle_outcome: the even trade of line 30 returns the
\* first difference for both sides.
calculate_battle_outcome_copied(unit1_type, unit1_amount, unit2_type, unit2_amount) ==
    IF unit1_type = unit2_type \/ unit1_type = "typeless" \/ unit2_type = "typeless"
    THEN <<unit1_amount - unit2_amount, unit1_amount - unit2_amount>>
    ELSE IF unit1_type \in DOMAIN COMBAT_RULES
            /\ COMBAT_RULES[unit1_type].kills = unit2_type
    THEN <<unit1_amount,
           unit2_amount - (unit1_amount \div COMBAT_RULES[unit1_type].ratio[1])
                            * COMBAT_RULES[unit1_type].ratio[2]>>
    ELSE IF unit2_type \in DOMAIN COMBAT_RULES
            /\ COMBAT_RULES[unit2_type].kills = unit1_type
    THEN <<unit1_amount - (unit2_amount \div COMBAT_RULES[unit2_type].ratio[1])
                            * COMBAT_RULES[unit2_type].ratio[2],
           unit2_amount>>
    ELSE <<unit1_amount - unit2_amount, unit2_amount - unit1_amount>>

\* calculate_battle_outcome: <<remaining_unit1_amount, remaining_unit2_amount>>
calculate_battle_outcome(unit1_type, unit1_amount, unit2_type, unit2_amount) ==
    IF unit1_type = unit2_type \/ unit1_type = "typeless" \/ unit2_type = "typeless"
    THEN <<unit1_amount - unit2_amount, unit2_amount - unit1_amount>>
    ELSE IF unit1_type \in DOMAIN COMBAT_RULES
            /\ COMBAT_RULES[unit1_type].kills = unit2_type
    THEN LET attacker_ratio == COMBAT_RULES[unit1_type].ratio[1]
             defender_ratio == COMBAT_RULES[unit1_type].ratio[2]
             unit2_killed   == (unit1_amount \div attacker_ratio) * defender_ratio
         IN  <<unit1_amount, unit2_amount - unit2_killed>>
    ELSE IF unit2_type \in DOMAIN COMBAT_RULES
            /\ COMBAT_RULES[unit2_type].kills = unit1_type
    THEN LET attacker_ratio == COMBAT_RULES[unit2_type].ratio[1]
             defender_ratio == COMBAT_RULES[unit2_type].ratio[2]
             unit1_killed   == (unit2_amount \div attacker_ratio) * defender_ratio
         IN  <<unit1_amount - unit1_killed, unit2_amount>>
    ELSE <<unit1_amount - unit2_amount, unit2_amount - unit1_amount>>

\* What combine_units raises for units of different teams.
ValueError == [type |-> "ValueError", amount |-> 0, team |-> "none"]

\* Mutant of combine_units: the amounts are not added.
combine_units_keeps_amount(unit1, unit2) ==
    IF unit1.team # unit2.team
    THEN ValueError
    ELSE [ type   |-> IF unit1.amount >= unit2.amount THEN unit1.type ELSE unit2.type,
           amount |-> unit1.amount,
           team   |-> unit1.team ]

\* Mutant of combine_units: > for >= in the choice of the type.
combine_units_strict(unit1, unit2) ==
    IF unit1.team # unit2.team
    THEN ValueError
    ELSE [ type   |-> IF unit1.amount > unit2.amount THEN unit1.type ELSE unit2.type,
           amount |-> unit1.amount + unit2.amount,
           team   |-> unit1.team ]

\* combine_units: the new unit, or ValueError.
combine_units(unit1, unit2) ==
    IF unit1.team # unit2.team
    THEN ValueError
    ELSE [ type   |-> IF unit1.amount >= unit2.amount THEN unit1.type ELSE unit2.type,
           amount |-> unit1.amount + unit2.amount,
           team   |-> unit1.team ]

RECURSIVE SumAmounts(_, _)
\* sum(unit['amount'] for unit in units if unit['team'] == team)
SumAmounts(units, team) ==
    IF units = <<>> THEN 0
    ELSE (IF Head(units).team = team THEN Head(units).amount ELSE 0)
         + SumAmounts(Tail(units), team)

\* Mutant of calculate_blue_advantage: the red total is not subtracted.
calculate_blue_advantage_blue_only(units) == SumAmounts(units, "blue")

\* calculate_blue_advantage
calculate_blue_advantage(units) ==
    SumAmounts(units, "blue") - SumAmounts(units, "red")

-----------------------------------------------------------------------------
(* Values of the search                                                     *)

\* float('-inf') and the finite advantages; a > b of Python is Gt(a, b).
NegInf == [inf |-> TRUE, val |-> 0]
Fin(v) == [inf |-> FALSE, val |-> v]
Gt(a, b) == ~a.inf /\ (b.inf \/ a.val > b.val)

\* current_units[idx], for a 0-based idx; InRange is the case without IndexError.
InRange(units, idx) == idx >= 0 /\ idx < Len(units)
At(units, idx) == units[idx + 1]

\* Python's order on strings, for the types and teams of the model.
TypeOrder == <<"archers", "soldiers", "typeless", "warriors">>
TeamOrder == <<"blue", "green", "red">>
Rank(order, s) == CHOOSE k \in 1..Len(order) : order[k] = s

\* (type, amount, team) tuples compared as Python compares tuples.
TupleLess(a, b) ==
    \/ Rank(TypeOrder, a.type) < Rank(TypeOrder, b.type)
    \/ /\ a.type = b.type
       /\ \/ a.amount < b.amount
          \/ a.amount = b.amount /\ Rank(TeamOrder, a.team) < Rank(TeamOrder, b.team)

RECURSIVE Insert(_, _)
Insert(x, s) ==
    IF s = <<>> THEN <<x>>
    ELSE IF TupleLess(Head(s), x) THEN <<Head(s)>> \o Insert(x, Tail(s))
    ELSE <<x>> \o s

RECURSIVE Sorted(_)
\* sorted([...]) of a list of unit tuples
Sorted(s) == IF s = <<>> THEN <<>> ELSE Insert(Head(s), Sorted(Tail(s)))

\* Mutant of state_key: the key leaves remaining_indices out.
state_key_units_only(current_units, remaining_indices) ==
    <<Sorted(current_units), <<>>>>

\* state_key = (tuple(sorted([(type, amount, team) ...])), remaining_indices)
state_key(current_units, remaining_indices) ==
    <<Sorted(current_units), remaining_indices>>

RECURSIVE SortedTuple(_)
\* tuple(sorted(list(S))) for a set S of indices
SortedTuple(S) ==
    IF S = {} THEN <<>>
    ELSE LET m == CHOOSE x \in S : \A y \in S : x <= y
         IN  <<m>> \o SortedTuple(S \ {m})

Range(s) == {s[k] : k \in 1..Len(s)}

\* Mutant of next_remaining: only idx1 is taken out.
next_remaining_keeps_idx2(remaining_indices, idx1, idx2) ==
    SortedTuple(Range(remaining_indices) \ {idx1})

\* next_remaining_indices = tuple(sorted(list(set(remaining_indices) - {idx1, idx2})))
next_remaining(remaining_indices, idx1, idx2) ==
    SortedTuple(Range(remaining_indices) \ {idx1, idx2})

\* [u for k, u in enumerate(current_units) if k != idx1 and k != idx2]
Others(s, idx1, idx2) ==
    LET keep == SortedTuple({k \in 0..(Len(s) - 1) : k # idx1 /\ k # idx2})
    IN  [n \in 1..Len(keep) |-> At(s, keep[n])]

\* The text of an operation, field by field: the two operands and what is left.
\* An eliminated side is printed without an amount (held here as 0).
Side(type, amount, team, left) ==
    [type |-> type, amount |-> IF left THEN amount ELSE 0, team |-> team, left |-> left]

CombineOp(unit1, unit2, new_unit) ==
    [ kind |-> "Combine", u1 |-> unit1, u2 |-> unit2,
      out  |-> <<Side(new_unit.type, new_unit.amount, new_unit.team, TRUE)>> ]

BattleOp(unit1, unit2, rem1, rem2) ==
    [ kind |-> "Battle", u1 |-> unit1, u2 |-> unit2,
      out  |-> << Side(unit1.type, rem1, unit1.team, rem1 > 0),
                  Side(unit2.type, rem2, unit2.team, rem2 > 0) >> ]

\* Mutant of Survivors: both sides are appended whatever is left of them.
Survivors_unchecked(unit1, unit2, rem1, rem2) ==
    << [type |-> unit1.type, amount |-> rem1, team |-> unit1.team],
       [type |-> unit2.type, amount |-> rem2, team |-> unit2.team] >>

\* The units a battle appends: each side only if its remaining amount is > 0.
Survivors(unit1, unit2, rem1, rem2) ==
    (IF rem1 > 0 THEN <<[type |-> unit1.type, amount |-> rem1, team |-> unit1.team]>>
     ELSE <<>>)
    \o
    (IF rem2 > 0 THEN <<[type |-> unit2.type, amount |-> rem2, team |-> unit2.team]>>
     ELSE <<>>)

\* What marks a unit of the state that is not an input group (ghost).
Derived == 0 - 1

-----------------------------------------------------------------------------
(* State                                                                    *)

VARIABLES
    status,   \* "idle" before solve_unit_problem is called, then "running",
              \* and "done" (it returned) or "IndexError" (it raised)
    input,    \* units = json.loads(json_data)
    memo,     \* the module-level cache: state_key -> (advantage, path)
    stack,    \* the active calls of find_best_path, the innermost last
    result,   \* what solve_unit_problem returned
    last,     \* ghost: the call of find_best_path that returned most recently
    hits,     \* ghost: how many calls were answered from the cache
    calls,    \* ghost: how many times solve_unit_problem has been called
    resolved  \* the latest direct call of a resolver function, with its return

vars == <<status, input, memo, stack, result, last, hits, calls, resolved>>

\* A group of the input: amount is the integer of the JSON text.
Unit(type, amount, team) == [type |-> type, amount |-> amount * Scale, team |-> team]

\* Groups of every type and team: an empty group, a group of one, a group
\* of the largest amount.
UnitDomain ==
    {Unit(t, a, tm) : t \in UnitTypes, a \in {0, 1, MaxAmount}, tm \in Teams}

\* example_json, example_json_2, example_json_3 of __main__
example_json ==
    << Unit("warriors", 12, "red"), Unit("archers", 7, "blue"),
       Unit("soldiers", 4, "blue"), Unit("typeless", 10, "red") >>
example_json_2 ==
    << Unit("archers", 20, "red"), Unit("soldiers", 15, "blue"),
       Unit("warriors", 10, "blue") >>
example_json_3 ==
    << Unit("archers", 50, "red"), Unit("soldiers", 20, "red"),
       Unit("warriors", 30, "blue") >>
\* the three groups the comment under example_json works out by hand
example_comment == SubSeq(example_json, 1, 3)

\* The inputs explored: every list of at most MaxUnits groups with a type of
\* the rule table or typeless, an amount of 0..MaxAmount and a team; the lists
\* of one group more whose amounts are all MaxAmount; and the lists the
\* program itself is run on.
ShortInputs(n) == [1..n -> UnitDomain]
LongInputs == [1..(MaxUnits + 1) -> {u \in UnitDomain : u.amount = MaxAmount * Scale}]
Examples == {example_json, example_json_2, example_json_3, example_comment}

\* A call of find_best_path: its arguments, its locals and where it stands.
\* prov is ghost: for each position of current_units the index the unit had in
\* the input, or Derived for the result of a combine or a battle.
Frame(current_units, prov, remaining_indices, path_so_far) ==
    [ units |-> current_units, prov |-> prov, rem |-> remaining_indices,
      path  |-> path_so_far,
      pc    |-> "enter",
      i     |-> 0, j |-> 0,
      max   |-> NegInf, best |-> <<>> ]

NoCall == [units |-> <<>>, rem |-> <<>>, adv |-> NegInf, path |-> <<>>, how |-> "none"]

\* Nothing returned yet.
NoResult == [max_blue_advantage |-> NegInf, best_path_operations |-> <<>>]
NoResolverCall == [fn |-> "none", args |-> <<>>, ret |-> <<>>]

\* memo = {} of line 81.
EmptyMemo == [k \in {} |-> 0]

Init ==
    /\ status = "idle"
    /\ input = <<>>
    /\ memo = EmptyMemo
    /\ stack = <<>>
    /\ result = NoResult
    /\ last = NoCall
    /\ hits = 0
    /\ calls = 0
    /\ resolved = NoResolverCall

Top == stack[Len(stack)]
Running == status = "running" /\ stack # <<>>

-----------------------------------------------------------------------------
(* The steps of find_best_path on one call                                  *)

\* memo[key] = (advantage, path)
Store(m, key, advantage, path) ==
    [k \in DOMAIN m \cup {key} |->
        IF k = key THEN [adv |-> advantage, path |-> path] ELSE m[k]]

\* Lines 106-107: max_advantage = -inf, best_path_operations = [], first i.
EnterLoops(f) ==
    [f EXCEPT !.pc = "outer", !.i = 0, !.max = NegInf, !.best = <<>>]

\* Where the loops stand after the iteration at (pc, i, j).
NextIteration(f) ==
    IF f.pc = "combine"
    THEN IF f.j + 1 < Len(f.rem)
         THEN [f EXCEPT !.j = f.j + 1]
         ELSE [f EXCEPT !.pc = "battle", !.j = 0]
    ELSE IF f.j + 1 < Len(f.rem)
         THEN [f EXCEPT !.j = f.j + 1]
         ELSE [f EXCEPT !.pc = "outer", !.i = f.i + 1, !.j = 0]

\* Line 110: the outer loop goes on to its combine loop (which is empty for
\* the last i) or is over.
OuterNext(f) ==
    IF f.i >= Len(f.rem) THEN [f EXCEPT !.pc = "after"]
    ELSE IF f.i + 1 < Len(f.rem)
         THEN [f EXCEPT !.pc = "combine", !.j = f.i + 1]
         ELSE [f EXCEPT !.pc = "battle", !.j = 0]

\* unit1 = current_units[idx1] (line 112) or unit2 = current_units[idx2]
\* (lines 117, 235) reads past the end of current_units.
IndexFails(f) ==
    \/ f.pc = "outer" /\ f.i < Len(f.rem) /\ ~InRange(f.units, At(f.rem, f.i))
    \/ f.pc = "combine" /\ ~InRange(f.units, At(f.rem, f.j))
    \/ f.pc = "battle" /\ f.i # f.j /\ ~InRange(f.units, At(f.rem, f.j))

Unit1(f) == At(f.units, At(f.rem, f.i))
Unit2(f) == At(f.units, At(f.rem, f.j))

\* Mutant of Combines: the team test of line 119 is left out.
Combines_any_team(f) == f.pc = "combine"

\* Line 119 and lines 231-237: this iteration makes a recursive call.
Combines(f) == f.pc = "combine" /\ Unit1(f).team = Unit2(f).team

\* Mutant of Battles: the team test of lines 237-239 is left out.
Battles_any_team(f) == f.pc = "battle" /\ f.i # f.j

Battles(f) == f.pc = "battle" /\ f.i # f.j /\ Unit1(f).team # Unit2(f).team

\* Lines 121, 148, 202-223: the call a combine makes.
CombineCall(f) ==
    LET idx1 == At(f.rem, f.i)
        idx2 == At(f.rem, f.j)
        new_unit == combine_units(Unit1(f), Unit2(f))
    IN  Frame(Append(Others(f.units, idx1, idx2), new_unit),
              Append(Others(f.prov, idx1, idx2), Derived),
              next_remaining(f.rem, idx1, idx2),
              Append(f.path, CombineOp(Unit1(f), Unit2(f), new_unit)))

\* Lines 239-284: the call a battle makes.
BattleCall(f) ==
    LET idx1 == At(f.rem, f.i)
        idx2 == At(f.rem, f.j)
        out == calculate_battle_outcome(Unit1(f).type, Unit1(f).amount,
                                        Unit2(f).type, Unit2(f).amount)
        left == Survivors(Unit1(f), Unit2(f), out[1], out[2])
    IN  Frame(Others(f.units, idx1, idx2) \o left,
              Others(f.prov, idx1, idx2) \o [k \in 1..Len(left) |-> Derived],
              next_remaining(f.rem, idx1, idx2),
              Append(f.path, BattleOp(Unit1(f), Unit2(f), out[1], out[2])))

\* Lines 225-227 and 286-288, then the next iteration: the caller takes
\* (advantage, path) from the call it made.
Resume(f, advantage, path) ==
    NextIteration(
        IF Gt(advantage, f.max)
        THEN [f EXCEPT !.max = advantage, !.best = path]
        ELSE f)

\* Lines 101-104: what a call with no remaining index returns.
BaseResult(f) ==
    [adv |-> Fin(calculate_blue_advantage(f.units)), path |-> f.path, how |-> "base"]

\* Lines 292-300: what a call returns after its loops.
\* Mutant of LoopsResult: lines 292-297 are left out.
LoopsResult_searched_only(f) ==
    [adv |-> f.max, path |-> f.best, how |-> "searched"]

LoopsResult(f) ==
    IF f.best = <<>> /\ Len(f.rem) = Len(f.units)
    THEN [adv |-> Fin(calculate_blue_advantage(f.units)), path |-> f.path,
          how |-> "evaluated"]
    ELSE [adv |-> f.max, path |-> f.best, how |-> "searched"]

\* Mutant of Written: a combine adds the amount of unit2 to unit1 in place.
Written_in_place(f) ==
    IF Combines(f)
    THEN [f.units EXCEPT ![At(f.rem, f.i) + 1].amount =
                             Unit1(f).amount + Unit2(f).amount]
    ELSE f.units

\* current_units of call f once an iteration of its loops has run. No
\* statement of the loops assigns to current_units or to a key of one of its
\* groups: the next state is made of new lists and new dicts (lines 202-223
\* and 274-284), and combine_units returns a new dict (lines 65-69).
Written(f) == f.units

\* The parsed input list after that iteration: the groups of current_units
\* that came from the input are the dict objects of the input list.
InputWritten(f) ==
    [k \in 1..Len(input) |->
        IF \E p \in 1..Len(f.prov) : f.prov[p] = k - 1
        THEN Written(f)[CHOOSE p \in 1..Len(f.prov) : f.prov[p] = k - 1]
        ELSE input[k]]

-----------------------------------------------------------------------------
(* Operations                                                               *)

\* The innermost call returns r: to its caller, or, for the first call, to
\* solve_unit_problem, which returns the result (lines 337-342).
Return(r) ==
    /\ last' = [units |-> Top.units, rem |-> Top.rem,
                adv |-> r.adv, path |-> r.path, how |-> r.how]
    /\ IF Len(stack) = 1
       THEN /\ stack' = <<>>
            /\ status' = "done"
            /\ result' = [max_blue_advantage |-> r.adv,
                          best_path_operations |-> r.path]
       ELSE /\ stack' = Append(SubSeq(stack, 1, Len(stack) - 2),
                               Resume(stack[Len(stack) - 1], r.adv, r.path))
            /\ UNCHANGED <<status, result>>

\* The keys find_best_path reads of every group.
Fields == {"type", "amount", "team"}

\* Line 96 reads u['type'], u['amount'] and u['team'] of every group of the
\* list: KeyError when a group lacks one of them.
KeyFails(units) == \E k \in 1..Len(units) : ~(Fields \subseteq DOMAIN units[k])

\* Mutant of ClearedMemo: line 335 is left out.
ClearedMemo_kept(m) == m

\* memo.clear() of line 335.
ClearedMemo(m) == EmptyMemo

\* solve_unit_problem up to its call of find_best_path (lines 307-337) and
\* the first statement of that call (line 96): parse, clear the cache, call
\* with every index remaining; the key of the first state is built, which
\* raises KeyError for a group without one of the three fields.
Solve(units) ==
    /\ status # "running"
    /\ input' = units
    /\ calls' = calls + 1
    /\ memo' = ClearedMemo(memo)
    /\ result' = NoResult
    /\ last' = NoCall
    /\ hits' = 0
    /\ IF KeyFails(units)
       THEN /\ status' = "KeyError"
            /\ stack' = <<>>
       ELSE /\ status' = "running"
            /\ stack' = <<Frame(units, [k \in 1..Len(units) |-> k - 1],
                                [k \in 1..Len(units) |-> k - 1], <<>>)>>
    /\ UNCHANGED resolved

\* Lines 96-99: the state is in the cache.
MemoHit ==
    /\ Running /\ Top.pc = "enter"
    /\ LET key == state_key(Top.units, Top.rem) IN
        /\ key \in DOMAIN memo
        /\ Return([adv |-> memo[key].adv, path |-> memo[key].path, how |-> "memo"])
    /\ hits' = hits + 1
    /\ UNCHANGED <<input, memo, calls, resolved>>

\* Lines 101-104: no index remains.
BaseCase ==
    /\ Running /\ Top.pc = "enter"
    /\ LET key == state_key(Top.units, Top.rem)
           r == BaseResult(Top) IN
        /\ key \notin DOMAIN memo
        /\ Top.rem = <<>>
        /\ memo' = Store(memo, key, r.adv, r.path)
        /\ Return(r)
    /\ UNCHANGED <<input, hits, calls, resolved>>

\* Lines 106-107: the search of this state starts.
StartLoops ==
    /\ Running /\ Top.pc = "enter"
    /\ state_key(Top.units, Top.rem) \notin DOMAIN memo
    /\ Top.rem # <<>>
    /\ stack' = [stack EXCEPT ![Len(stack)] = EnterLoops(Top)]
    /\ UNCHANGED <<status, input, memo, result, last, hits, calls, resolved>>

\* Lines 110-112: the next idx1 and unit1, or the end of the outer loop.
OuterStep ==
    /\ Running /\ Top.pc = "outer"
    /\ ~IndexFails(Top)
    /\ stack' = [stack EXCEPT ![Len(stack)] = OuterNext(Top)]
    /\ UNCHANGED <<status, input, memo, result, last, hits, calls, resolved>>

\* Lines 115-223: one iteration of the combine loop; a pair of one team is
\* combined and the search is called on the next state.
CombineStep ==
    /\ Running /\ Top.pc = "combine"
    /\ ~IndexFails(Top)
    /\ IF Combines(Top)
       THEN IF combine_units(Unit1(Top), Unit2(Top)) = ValueError
            THEN /\ status' = "ValueError"
                 /\ stack' = <<>>
                 /\ UNCHANGED input
            ELSE /\ stack' = Append([stack EXCEPT ![Len(stack)].units = Written(Top)],
                                    CombineCall(Top))
                 /\ input' = InputWritten(Top)
                 /\ UNCHANGED status
       ELSE /\ stack' = [stack EXCEPT ![Len(stack)] = NextIteration(Top)]
            /\ UNCHANGED <<status, input>>
    /\ UNCHANGED <<memo, result, last, hits, calls, resolved>>

\* Lines 230-284: one iteration of the battle loop; a pair of two teams
\* fights and the search is called on the next state.
BattleStep ==
    /\ Running /\ Top.pc = "battle"
    /\ ~IndexFails(Top)
    /\ IF Battles(Top)
       THEN /\ stack' = Append([stack EXCEPT ![Len(stack)].units = Written(Top)],
                               BattleCall(Top))
            /\ input' = InputWritten(Top)
       ELSE /\ stack' = [stack EXCEPT ![Len(stack)] = NextIteration(Top)]
            /\ UNCHANGED input
    /\ UNCHANGED <<status, memo, result, last, hits, calls, resolved>>

\* IndexError leaves every active call and solve_unit_problem.
RaiseIndexError ==
    /\ Running
    /\ IndexFails(Top)
    /\ status' = "IndexError"
    /\ stack' = <<>>
    /\ UNCHANGED <<input, memo, result, last, hits, calls, resolved>>

\* Lines 292-300: after the loops.
LoopsDone ==
    /\ Running /\ Top.pc = "after"
    /\ LET r == LoopsResult(Top) IN
        /\ memo' = Store(memo, state_key(Top.units, Top.rem), r.adv, r.path)
        /\ Return(r)
    /\ UNCHANGED <<input, hits, calls, resolved>>

Next ==
    \/ status = "idle" /\ \E n \in 0..MaxUnits : \E units \in ShortInputs(n) : Solve(units)
    \/ status = "idle" /\ \E units \in LongInputs : Solve(units)
    \/ status = "idle" /\ \E units \in Examples : Solve(units)
    \/ MemoHit
    \/ BaseCase
    \/ StartLoops
    \/ OuterStep
    \/ CombineStep
    \/ BattleStep
    \/ RaiseIndexError
    \/ LoopsDone

Spec == Init /\ [][Next]_vars

\* The program is one thread that runs until it returns or raises.
FairSpec == Spec /\ WF_vars(Next)

-----------------------------------------------------------------------------
(* solve_unit_problem on any JSON list of groups                            *)

\* A group as the input format describes it: the three fields, an amount
\* that is not negative, one of the two teams.
WellFormed(u) ==
    /\ Fields \subseteq DOMAIN u
    /\ u.amount >= 0
    /\ u.team \in Teams

Malformed(units) == \E k \in 1..Len(units) : ~WellFormed(units[k])

\* Groups json.loads accepts that are not well formed: a negative amount, a
\* third team label, one of the fields missing.
BadGroups ==
    {Unit(t, 0 - a, tm) : t \in UnitTypes, a \in 1..MaxAmount, tm \in Teams}
    \cup {Unit(t, a, "green") : t \in UnitTypes, a \in 0..MaxAmount}
    \cup {[type |-> u.type, amount |-> u.amount] : u \in UnitDomain}
    \cup {[type |-> u.type, team |-> u.team] : u \in UnitDomain}
    \cup {[amount |-> u.amount, team |-> u.team] : u \in UnitDomain}

\* Lists of one or two groups with a group that is not well formed.
MalformedInputs ==
    {units \in UNION {[1..n -> UnitDomain \cup BadGroups] : n \in 1..2} :
        Malformed(units)}

NextAny ==
    \/ Next
    \/ status = "idle" /\ \E units \in MalformedInputs : Solve(units)

SpecAny == Init /\ [][NextAny]_vars

-----------------------------------------------------------------------------
(* The same search without the cache                                        *)

Raised == [err |-> TRUE, adv |-> NegInf, path |-> <<>>]
Returned(r) == [err |-> FALSE, adv |-> r.adv, path |-> r.path]

RECURSIVE SearchNoMemo(_)
\* find_best_path from the position of frame f with lines 98-99 (the lookup)
\* and the stores taken out: what it returns, or that it raised.
SearchNoMemo(f) ==
    IF f.pc = "enter"
    THEN IF f.rem = <<>> THEN Returned(BaseResult(f))
         ELSE SearchNoMemo(EnterLoops(f))
    ELSE IF f.pc = "after" THEN Returned(LoopsResult(f))
    ELSE IF IndexFails(f) THEN Raised
    ELSE IF f.pc = "outer" THEN SearchNoMemo(OuterNext(f))
    ELSE IF Combines(f) \/ Battles(f)
    THEN LET r == SearchNoMemo(IF Combines(f) THEN CombineCall(f) ELSE BattleCall(f))
         IN  IF r.err THEN Raised ELSE SearchNoMemo(Resume(f, r.adv, r.path))
    ELSE SearchNoMemo(NextIteration(f))

\* The first call solve_unit_problem makes.
FirstCall(units) ==
    Frame(units, [k \in 1..Len(units) |-> k - 1], [k \in 1..Len(units) |-> k - 1], <<>>)

-----------------------------------------------------------------------------
(* One call of solve_unit_problem on its own                                *)

RECURSIVE SearchMemo(_, _)
\* find_best_path from the position of frame f with the cache holding m:
\* what it returns and the cache it leaves, or that it raised.
SearchMemo(f, m) ==
    LET key == state_key(f.units, f.rem)
        Ret(r, m2) == [err |-> FALSE, adv |-> r.adv, path |-> r.path, memo |-> m2]
    IN
    IF f.pc = "enter"
    THEN IF key \in DOMAIN m THEN Ret(m[key], m)
         ELSE IF f.rem = <<>>
         THEN Ret(BaseResult(f), Store(m, key, BaseResult(f).adv, BaseResult(f).path))
         ELSE SearchMemo(EnterLoops(f), m)
    ELSE IF f.pc = "after"
    THEN Ret(LoopsResult(f), Store(m, key, LoopsResult(f).adv, LoopsResult(f).path))
    ELSE IF IndexFails(f)
    THEN [err |-> TRUE, adv |-> NegInf, path |-> <<>>, memo |-> m]
    ELSE IF f.pc = "outer" THEN SearchMemo(OuterNext(f), m)
    ELSE IF Combines(f) \/ Battles(f)
    THEN LET r == SearchMemo(IF Combines(f) THEN CombineCall(f) ELSE BattleCall(f), m)
         IN  IF r.err THEN r ELSE SearchMemo(Resume(f, r.adv, r.path), r.memo)
    ELSE SearchMemo(NextIteration(f), m)

\* solve_unit_problem(units) as the only call the process makes.
OnlyCall(units) == SearchMemo(FirstCall(units), EmptyMemo)

-----------------------------------------------------------------------------
(* Several calls of solve_unit_problem, one after the other                 *)

MaxCalls == 2

\* Groups of the kill rule with the 2:3 ratio: archers of the smallest and of
\* the largest amount, warriors of the largest.
CallUnits ==
    {Unit("archers", a, tm) : a \in {1, MaxAmount}, tm \in Teams}
    \cup {Unit("warriors", MaxAmount, tm) : tm \in Teams}

CallInputs == UNION {[1..n -> CallUnits] : n \in 0..MaxUnits}

\* A caller calls solve_unit_problem again once the call before has returned
\* or raised.
NextCalls ==
    \/ status # "running" /\ calls < MaxCalls
                          /\ \E units \in CallInputs : Solve(units)
    \/ MemoHit
    \/ BaseCase
    \/ StartLoops
    \/ OuterStep
    \/ CombineStep
    \/ BattleStep
    \/ RaiseIndexError
    \/ LoopsDone

SpecCalls == Init /\ [][NextCalls]_vars

-----------------------------------------------------------------------------
(* The resolver functions called on their own                               *)

\* The types of the rules, typeless, and a type COMBAT_RULES has no entry
\* for (the type of a group is any string).
ResolverTypes == UnitTypes \cup {"cavalry"}

\* Whole amounts up to what two groups of the search can add up to.
ResolverAmounts == {a * Scale : a \in 0..(MaxAmount + MaxAmount)}

ResolverUnits ==
    {[type |-> t, amount |-> a, team |-> tm] :
        t \in ResolverTypes, a \in ResolverAmounts, tm \in Teams}

BattleCalls ==
    {[fn |-> "calculate_battle_outcome", args |-> <<t1, a1, t2, a2>>, ret |-> <<>>] :
        t1 \in ResolverTypes, a1 \in ResolverAmounts,
        t2 \in ResolverTypes, a2 \in ResolverAmounts}

CombineCalls ==
    {[fn |-> "combine_units", args |-> <<u1, u2>>, ret |-> <<>>] :
        u1 \in ResolverUnits, u2 \in ResolverUnits}

\* A call of one of the two functions has been made and has not returned.
InitResolver ==
    /\ status = "idle"
    /\ input = <<>>
    /\ memo = EmptyMemo
    /\ stack = <<>>
    /\ result = NoResult
    /\ last = NoCall
    /\ hits = 0
    /\ calls = 0
    /\ resolved \in BattleCalls \cup CombineCalls

\* calculate_battle_outcome returns.
ResolveBattle ==
    /\ resolved.fn = "calculate_battle_outcome"
    /\ resolved.ret = <<>>
    /\ resolved' = [resolved EXCEPT !.ret =
           calculate_battle_outcome(resolved.args[1], resolved.args[2],
                                    resolved.args[3], resolved.args[4])]
    /\ UNCHANGED <<status, input, memo, stack, result, last, hits, calls>>

\* combine_units returns the new unit or raises ValueError.
ResolveCombine ==
    /\ resolved.fn = "combine_units"
    /\ resolved.ret = <<>>
    /\ resolved' = [resolved EXCEPT !.ret =
           combine_units(resolved.args[1], resolved.args[2])]
    /\ UNCHANGED <<status, input, memo, stack, result, last, hits, calls>>

NextResolver == ResolveBattle \/ ResolveCombine

SpecResolver == InitResolver /\ [][NextResolver]_vars

-----------------------------------------------------------------------------
(* What the properties are stated with                                      *)

Finished == status = "done" \/ status = "IndexError"

RECURSIVE BlueMinusRed(_)
\* The blue total minus the red total of a list of groups.
BlueMinusRed(units) ==
    IF units = <<>> THEN 0
    ELSE (IF Head(units).team = "blue" THEN Head(units).amount
          ELSE IF Head(units).team = "red" THEN 0 - Head(units).amount
          ELSE 0)
         + BlueMinusRed(Tail(units))

MaxOf(S) == CHOOSE m \in S : \A x \in S : x <= m

\* The groups a legal interaction of the groups at positions a and b leaves:
\* the other groups, then the combined group or the sides a battle leaves.
Interact(units, a, b) ==
    LET ua == units[a]
        ub == units[b]
        out == calculate_battle_outcome(ua.type, ua.amount, ub.type, ub.amount)
    IN  Others(units, a - 1, b - 1)
        \o (IF ua.team = ub.team THEN <<combine_units(ua, ub)>>
            ELSE Survivors(ua, ub, out[1], out[2]))

RECURSIVE TerminalAdvantages(_, _)
\* The advantages of the terminal states reachable from a state by legal
\* transitions: two input groups that took part in no interaction yet are
\* chosen, and both are consumed.  fresh[k] tells that position k holds such
\* a group.
TerminalAdvantages(units, fresh) ==
    LET free == {k \in 1..Len(units) : fresh[k]}
        left(a, b) == Interact(units, a, b)
    IN  IF Cardinality(free) < 2 THEN {BlueMinusRed(units)}
        ELSE UNION { TerminalAdvantages(left(p[1], p[2]),
                         Others(fresh, p[1] - 1, p[2] - 1)
                           \o [k \in 1..(Len(left(p[1], p[2])) - Len(units) + 2) |-> FALSE])
                     : p \in {q \in free \X free : q[1] # q[2]} }

RECURSIVE RemoveOne(_, _)
\* s without the first group equal to u.
RemoveOne(s, u) ==
    IF s = <<>> THEN <<>>
    ELSE IF Head(s) = u THEN Tail(s)
    ELSE <<Head(s)>> \o RemoveOne(Tail(s), u)

Has(s, u) == \E k \in 1..Len(s) : s[k] = u

\* The groups an operation's text says are left.
OpLeaves(op) ==
    LET kept == SelectSeq(op.out, LAMBDA o : o.left)
    IN  [k \in 1..Len(kept) |->
            [type |-> kept[k].type, amount |-> kept[k].amount, team |-> kept[k].team]]

\* op is a legal interaction of two groups of s, and says what it leaves.
OpLegal(s, op) ==
    /\ Has(s, op.u1)
    /\ Has(RemoveOne(s, op.u1), op.u2)
    /\ IF op.kind = "Combine"
       THEN /\ op.u1.team = op.u2.team
            /\ OpLeaves(op) = <<[type |-> IF op.u1.amount >= op.u2.amount
                                          THEN op.u1.type ELSE op.u2.type,
                                 amount |-> op.u1.amount + op.u2.amount,
                                 team |-> op.u1.team]>>
       ELSE /\ op.kind = "Battle"
            /\ op.u1.team # op.u2.team
            /\ LET out == calculate_battle_outcome(op.u1.type, op.u1.amount,
                                                   op.u2.type, op.u2.amount)
               IN  OpLeaves(op) =
                       (IF out[1] > 0 THEN <<[op.u1 EXCEPT !.amount = out[1]]>> ELSE <<>>)
                       \o (IF out[2] > 0 THEN <<[op.u2 EXCEPT !.amount = out[2]]>> ELSE <<>>)

ApplyOp(s, op) == RemoveOne(RemoveOne(s, op.u1), op.u2) \o OpLeaves(op)

RECURSIVE PathLegal(_, _)
PathLegal(s, path) ==
    path = <<>> \/ (OpLegal(s, Head(path)) /\ PathLegal(ApplyOp(s, Head(path)), Tail(path)))

RECURSIVE EndState(_, _)
EndState(s, path) ==
    IF path = <<>> THEN s ELSE EndState(ApplyOp(s, Head(path)), Tail(path))

-----------------------------------------------------------------------------
(* Properties                                                               *)

\* C1: solve_unit_problem never raises, and in every active call of
\* find_best_path every index of remaining_indices is a position of
\* current_units.
C1_NoRuntimeError ==
    /\ status # "IndexError"
    /\ \A k \in 1..Len(stack) :
           \A n \in 1..Len(stack[k].rem) : InRange(stack[k].units, stack[k].rem[n])

\* The two positions a call that is waiting for a recursive call selected.
Chosen(f) == {At(f.rem, f.i), At(f.rem, f.j)}

\* C2: the two units of every transition are input groups that took part in
\* no earlier interaction of the path, never a combined group or a survivor
\* of a battle.
C2_OperandsAreInputGroups ==
    \A k \in 1..(Len(stack) - 1) :
        \A idx \in Chosen(stack[k]) : At(stack[k].prov, idx) # Derived

\* C3: a call on a state with no remaining index, or with a single one (so
\* that no two can be paired), returns the blue total minus the red total of
\* the state's groups.
C3_TerminalStateIsEvaluated ==
    (last.how # "none" /\ Len(last.rem) <= 1)
        => last.adv = Fin(BlueMinusRed(last.units))

\* C4: the advantage solve_unit_problem returns is the greatest blue total
\* minus red total over the terminal states that legal transitions reach
\* from the input.
C4_MaxOverTerminalStates ==
    status = "done" =>
        result.max_blue_advantage =
            Fin(MaxOf(TerminalAdvantages(input, [k \in 1..Len(input) |-> TRUE])))

\* C5: for warriors 12 red, archers 7 blue, soldiers 4 blue the returned path
\* combines the archers and the soldiers into 11 blue archers, then battles
\* them against the 12 warriors, and the returned advantage is the advantage
\* of the state the path ends in, which is not negative.
C5_ExampleCombinesThenBattles ==
    (Finished /\ input = example_comment) =>
        LET path == result.best_path_operations
            archers11 == Unit("archers", 11, "blue")
        IN  /\ status = "done"
            /\ Len(path) = 2
            /\ path[1].kind = "Combine"
            /\ {path[1].u1, path[1].u2} = {example_comment[2], example_comment[3]}
            /\ OpLeaves(path[1]) = <<archers11>>
            /\ path[2].kind = "Battle"
            /\ {path[2].u1, path[2].u2} = {archers11, example_comment[1]}
            /\ result.max_blue_advantage = Fin(BlueMinusRed(EndState(input, path)))
            /\ result.max_blue_advantage.val >= 0


\* C6: for an input of at most 4 groups the search with the cache ends as the
\* search without it: both raise, or both return the same advantage.
C6_MemoAgreesWithNoMemo ==
    (Finished /\ Len(input) <= 4) =>
        LET plain == SearchNoMemo(FirstCall(input))
        IN  /\ plain.err = (status = "IndexError")
            /\ status = "done" => result.max_blue_advantage = plain.adv

\* C6 witness: a search of three groups returned after the cache answered calls.
C6_Witness == status = "done" /\ Len(input) = 3 /\ hits > 0

\* C7: the returned operations are, in order, legal interactions of the
\* input groups, and the state they end in has the returned advantage.
C7_PathYieldsAdvantage ==
    status = "done" =>
        /\ PathLegal(input, result.best_path_operations)
        /\ result.max_blue_advantage =
               Fin(BlueMinusRed(EndState(input, result.best_path_operations)))

\* C7 witness: a returned path with an operation, of a search the cache answered in.
C7_Witness == status = "done" /\ result.best_path_operations # <<>> /\ hits > 0

\* Every recursive call holds the caller's remaining indices without the two
\* chosen ones, which are two of them.
Shrinks ==
    \A k \in 1..(Len(stack) - 1) :
        LET f == stack[k]
            g == stack[k + 1]
        IN  /\ Chosen(f) \subseteq Range(f.rem)
            /\ Range(g.rem) = Range(f.rem) \ Chosen(f)
            /\ Len(g.rem) = Len(f.rem) - 2

\* C8: every transition removes both chosen indices from remaining_indices,
\* so the remaining indices shrink along a path, and the search ends.
C8_ShrinksAndTerminates == [](Shrinks) /\ <>(Finished)

\* C8 witness: a transition made from a state a transition led to.
C8_Witness == Len(stack) = 3

\* C9: every group of every state of the search has an amount >= 0.
C9_AmountsNonNegative ==
    \A k \in 1..Len(stack) :
        \A n \in 1..Len(stack[k].units) : stack[k].units[n].amount >= 0

\* The operation that led to the call f, and what the resolver returns for it.
LastOp(f) == f.path[Len(f.path)]
OutcomeOf(op) ==
    calculate_battle_outcome(op.u1.type, op.u1.amount, op.u2.type, op.u2.amount)

\* C9 witness: a state reached by a battle whose resolver result for a side
\* is negative, that side removed.
C9_Witness ==
    \E k \in 2..Len(stack) :
        /\ LastOp(stack[k]).kind = "Battle"
        /\ OutcomeOf(LastOp(stack[k]))[1] < 0
        /\ Len(stack[k].units) = Len(stack[k - 1].units) - 1

\* C10 as claimed: both amounts calculate_battle_outcome returns for a battle
\* of the search are >= 0.
C10_OutcomeNonNegative ==
    (Running /\ ~IndexFails(Top) /\ Battles(Top)) =>
        LET out == calculate_battle_outcome(Unit1(Top).type, Unit1(Top).amount,
                                            Unit2(Top).type, Unit2(Top).amount)
        IN  out[1] >= 0 /\ out[2] >= 0

\* C10 amended: calculate_battle_outcome returns no more than each side had,
\* without a floor, and the state a battle leads to holds, after the other
\* groups, exactly the sides whose returned amount is > 0, with that amount.
C10_KeptSidesPositive ==
    \A k \in 2..Len(stack) :
        LastOp(stack[k]).kind = "Battle" =>
            LET op == LastOp(stack[k])
                out == OutcomeOf(op)
                others == Len(stack[k - 1].units) - 2
                kept == SubSeq(stack[k].units, others + 1, Len(stack[k].units))
                side1 == IF out[1] > 0 THEN <<[op.u1 EXCEPT !.amount = out[1]]>> ELSE <<>>
                side2 == IF out[2] > 0 THEN <<[op.u2 EXCEPT !.amount = out[2]]>> ELSE <<>>
            IN  /\ out[1] <= op.u1.amount
                /\ out[2] <= op.u2.amount
                /\ kept = side1 \o side2
                /\ \A n \in 1..Len(kept) : kept[n].amount > 0

\* C10 witness: a state reached by a battle in which one returned amount is
\* negative and the other side is kept.
C10_Witness ==
    \E k \in 2..Len(stack) :
        /\ LastOp(stack[k]).kind = "Battle"
        /\ OutcomeOf(LastOp(stack[k]))[2] < 0
        /\ OutcomeOf(LastOp(stack[k]))[1] > 0

\* C11: solve_unit_problem rejects an input with a group that lacks a field,
\* has a negative amount or a team other than the two, before any step of
\* the search runs: no call of find_best_path gets past its cache lookup
\* and no result is returned.
C11_MalformedInputRejected ==
    (calls > 0 /\ Malformed(input)) =>
        /\ status # "done"
        /\ \A k \in 1..Len(stack) : stack[k].pc = "enter"

\* C12: the cache is empty when a top-level call of solve_unit_problem
\* starts, and whatever calls came before, a call ends as the same input
\* ends when it is the only call: the same result or the same error, and
\* the same cache entries, so none of them came from an earlier call.
C12_CallsAreIsolated ==
    /\ (Running /\ Len(stack) = 1 /\ Top.pc = "enter") => memo = EmptyMemo
    /\ Finished =>
          LET alone == OnlyCall(input) IN
          /\ alone.err = (status = "IndexError")
          /\ status = "done" =>
                result = [max_blue_advantage |-> alone.adv,
                          best_path_operations |-> alone.path]
          /\ memo = alone.memo

\* A second call returned, and the cache answered one of its states.
C12_Witness ==
    /\ calls > 1
    /\ status = "done"
    /\ hits > 0

\* C13: in every search combine_units is called on two units of one team
\* only, so its ValueError is never raised from within find_best_path.
C13_CombineSameTeam ==
    /\ status # "ValueError"
    /\ \A k \in 2..Len(stack) :
          LET op == LastOp(stack[k]) IN
          op.kind = "Combine" =>
              /\ op.u1.team = op.u2.team
              /\ combine_units(op.u1, op.u2) # ValueError

\* A combine was made in a search whose input has groups of both teams.
C13_Witness ==
    /\ \E k \in 2..Len(stack) : LastOp(stack[k]).kind = "Combine"
    /\ \E a, b \in 1..Len(input) : input[a].team # input[b].team

\* unit type a kills unit type d by a rule of the table.
KillRule(a, d) == a \in DOMAIN COMBAT_RULES /\ COMBAT_RULES[a].kills = d

\* (attacker amount / units_required) * kills_dealt
Kills(a, amount) ==
    (amount \div COMBAT_RULES[a].ratio[1]) * COMBAT_RULES[a].ratio[2]

\* calculate_battle_outcome was called and has returned.
BattleReturned == resolved.fn = "calculate_battle_outcome" /\ resolved.ret # <<>>

\* combine_units was called on two units of one team and has returned.
CombineReturned ==
    /\ resolved.fn = "combine_units"
    /\ resolved.ret # <<>>
    /\ resolved.args[1].team = resolved.args[2].team

\* C14 as claimed: in a battle of a kill rule the attacker keeps its amount
\* and the defender is left with its amount minus the kills, floored at 0,
\* whichever argument the attacker is.
C14_DefenderFlooredAtZero ==
    BattleReturned =>
        LET t1 == resolved.args[1]
            a1 == resolved.args[2]
            t2 == resolved.args[3]
            a2 == resolved.args[4]
        IN
        /\ KillRule(t1, t2) =>
              resolved.ret = <<a1, MaxOf({0, a2 - Kills(t1, a1)})>>
        /\ KillRule(t2, t1) =>
              resolved.ret = <<MaxOf({0, a1 - Kills(t2, a2)}), a2>>

\* C14: in a battle of a kill rule the attacker keeps its amount and the
\* defender is left with its amount minus the kills, below 0 when the kills
\* are more than it had, whichever argument the attacker is.
C14_AttackerKeepsDefenderLoses ==
    BattleReturned =>
        LET t1 == resolved.args[1]
            a1 == resolved.args[2]
            t2 == resolved.args[3]
            a2 == resolved.args[4]
        IN
        /\ KillRule(t1, t2) => resolved.ret = <<a1, a2 - Kills(t1, a1)>>
        /\ KillRule(t2, t1) => resolved.ret = <<a1 - Kills(t2, a2), a2>>

\* The attacker is the second argument and kills more than the defender had.
C14_Witness ==
    /\ BattleReturned
    /\ KillRule(resolved.args[3], resolved.args[1])
    /\ resolved.ret[1] < 0
    /\ resolved.ret[2] = resolved.args[4]

\* A battle is an even trade: one type, a typeless side, or no rule in
\* either direction.
EvenTrade(t1, t2) ==
    \/ t1 = t2
    \/ t1 = "typeless"
    \/ t2 = "typeless"
    \/ ~KillRule(t1, t2) /\ ~KillRule(t2, t1)

\* C15: for an even trade, the call with the two arguments swapped returns
\* the two results swapped.
C15_EvenTradeSymmetric ==
    (BattleReturned /\ EvenTrade(resolved.args[1], resolved.args[3])) =>
        calculate_battle_outcome(resolved.args[3], resolved.args[4],
                                 resolved.args[1], resolved.args[2])
            = <<resolved.ret[2], resolved.ret[1]>>

\* An even trade of unequal amounts between two types without a rule.
C15_Witness ==
    /\ BattleReturned
    /\ resolved.args[1] = "cavalry"
    /\ resolved.args[3] = "archers"
    /\ resolved.args[2] > resolved.args[4]
    /\ resolved.ret[2] < 0

\* The advantage of groups of one team that add up to amount.
Signed(team, amount) == IF team = "blue" THEN amount ELSE 0 - amount

\* C16: for an input of two groups of one team the search returns, and the
\* path is one Combine and no Battle, the advantage the sum of the two
\* amounts for blue and minus the sum for red.
C16_TwoFriendlyGroupsCombine ==
    (Finished /\ Len(input) = 2 /\ input[1].team = input[2].team) =>
        /\ status = "done"
        /\ Len(result.best_path_operations) = 1
        /\ result.best_path_operations[1].kind = "Combine"
        /\ result.max_blue_advantage =
              Fin(Signed(input[1].team, input[1].amount + input[2].amount))

\* Two red groups of different types were solved.
C16_Witness ==
    /\ status = "done"
    /\ Len(input) = 2
    /\ input[1].team = "red" /\ input[2].team = "red"
    /\ input[1].type # input[2].type
    /\ input[1].amount > 0 /\ input[2].amount > 0

\* C17: for an input of one group the search returns an empty list of
\* operations and the amount of the group as the advantage, negated for red.
C17_SingleGroupIsTerminal ==
    (Finished /\ Len(input) = 1) =>
        /\ status = "done"
        /\ result.best_path_operations = <<>>
        /\ result.max_blue_advantage = Fin(Signed(input[1].team, input[1].amount))

\* One red group that is not empty was solved.
C17_Witness ==
    /\ status = "done"
    /\ Len(input) = 1
    /\ input[1].team = "red"
    /\ input[1].amount > 0

\* C18: for two groups of one team combine_units returns a group whose
\* amount is the sum of the two amounts and whose team is theirs, and the
\* amount is the same with the two arguments in the other order.
C18_CombineAddsAmounts ==
    CombineReturned =>
        /\ resolved.ret.amount = resolved.args[1].amount + resolved.args[2].amount
        /\ resolved.ret.team = resolved.args[1].team
        /\ resolved.ret.team = resolved.args[2].team
        /\ combine_units(resolved.args[2], resolved.args[1]).amount = resolved.ret.amount

\* Two groups of different types and different amounts were combined.
C18_Witness ==
    /\ CombineReturned
    /\ resolved.args[1].type # resolved.args[2].type
    /\ 0 < resolved.args[1].amount
    /\ resolved.args[1].amount < resolved.args[2].amount

\* C19: combine_units gives the new group the type of the argument with the
\* strictly larger amount, and the type of the first argument on a tie.
C19_LargerGroupGivesType ==
    CombineReturned =>
        LET unit1 == resolved.args[1]
            unit2 == resolved.args[2]
        IN
        /\ unit1.amount > unit2.amount => resolved.ret.type = unit1.type
        /\ unit2.amount > unit1.amount => resolved.ret.type = unit2.type
        /\ unit1.amount = unit2.amount => resolved.ret.type = unit1.type

\* A tie between two groups of different types.
C19_Witness ==
    /\ CombineReturned
    /\ resolved.args[1].amount = resolved.args[2].amount
    /\ resolved.args[1].amount > 0
    /\ resolved.args[1].type # resolved.args[2].type

\* C20: no step of the search changes the parsed input list or the
\* current_units of a call that is still active: every step makes new
\* collections, and when solve_unit_problem returns every input group has
\* the type, amount and team it had when the call began.
C20_InputsNeverWritten ==
    [][ /\ status = "running" => input' = input
        /\ \A k \in 1..Len(stack) :
              k <= Len(stack') => stack'[k].units = stack[k].units ]_vars

\* A battle made the next state while the first call still holds the input.
C20_Witness ==
    /\ Len(stack) = 2
    /\ LastOp(stack[2]).kind = "Battle"
    /\ stack[1].units = input
    /\ Len(stack[2].units) < Len(input)

====
